---------------------------- MODULE Spec2Model ----------------------------
(* A model of src/app.py: the representative-image locator, the embedding   *)
(* extractor boundary, the database builder (process_celebrity_directory)   *)
(* and the similarity ranker (find_celebrity_matches), with the two         *)
(* process-wide objects celebrity_database and processing_status.           *)
(*                                                                          *)
(* Conventions.                                                             *)
(*  - A file or directory name is a sequence of character chunks, so that   *)
(*    str.endswith and == are computed on the name: <<"folder", ".jpg">>    *)
(*    is "folder.jpg", <<"x", "-poster", ".jpg">> is "x-poster.jpg".        *)
(*  - The filesystem is static. The paths a rebuild can be given are       *)
(*    numbered; Tree(p) is what path number p holds, a directory with its   *)
(*    listing in the order Path.iterdir yields it.                          *)
(*  - An embedding is a vector of integers in hundredths; the embeddings    *)
(*    used lie on one line so that every Euclidean distance is an integer   *)
(*    number of hundredths. The field "distance" holds 100 * distance, so   *)
(*    "distance * 100" of the source is that field.                         *)
(*  - A dict is the sequence of its items in insertion order.               *)
EXTENDS Integers, Sequences, FiniteSets, TLC

VARIABLES
    celebrity_database,   \* app.py:28, the dict name -> {embedding, image_path}
    processing_status,    \* app.py:29, {"is_processing", "message"}
    response,             \* the value a handler returned in the last step, if one did
    r_pc,                 \* position of the thread running process_celebrity_directory
    r_dir,                \* its directory_path
    r_idx,                \* entries of directory_path.iterdir() already visited
    r_counts,             \* its locals processed_count and skipped_count
    r_was_full,           \* history: the database held the root's final contents at entry
    q_pc,                 \* position of the thread running find_celebrity_matches
    q_img,                \* the uploaded image
    q_topk,               \* its top_k
    q_target,             \* target_embedding
    q_iter,               \* the dict item iterator of the for loop
    q_sims,               \* similarities
    s_pc,                 \* position of the thread running api_database_status
    s_part,               \* the fields of its response evaluated so far
    loc_actor,            \* the directory a direct call of find_actor_image is given
    loc_result            \* what that call returned

vars == <<celebrity_database, processing_status, response,
          r_pc, r_dir, r_idx, r_counts, r_was_full,
          q_pc, q_img, q_topk, q_target, q_iter, q_sims,
          s_pc, s_part, loc_actor, loc_result>>

rvars == <<r_pc, r_dir, r_idx, r_counts, r_was_full>>
qvars == <<q_pc, q_img, q_topk, q_target, q_iter, q_sims>>
svars == <<s_pc, s_part>>
lvars == <<loc_actor, loc_result>>

-----------------------------------------------------------------------------
(* Bounds of the model.                                                     *)

MaxEntries == 3       \* entries of a root directory
MaxTopK == 2          \* top_k of a direct call of find_celebrity_matches
MaxFiles == 2         \* files per directory of the locator's input trees

(* top_k of api_recognize_face.                                             *)
RecognizeTopK == 10

-----------------------------------------------------------------------------
(* Sequences.                                                               *)

Range(s) == {s[i] : i \in 1..Len(s)}

Take(s, k) == SubSeq(s, 1, IF k < Len(s) THEN k ELSE Len(s))

(* All sequences of length at most n over S without repeated elements.      *)
RECURSIVE InjSeqs(_, _)
InjSeqs(S, n) ==
    IF n = 0 THEN {<<>>}
    ELSE LET shorter == InjSeqs(S, n - 1)
         IN  shorter \cup
             {Append(p[1], p[2]) :
                p \in {c \in shorter \X S :
                         Len(c[1]) = n - 1 /\ c[2] \notin Range(c[1])}}

-----------------------------------------------------------------------------
(* Names, files and directories.                                            *)

FolderJpg == <<"folder", ".jpg">>
PosterSuffix == <<"-poster", ".jpg">>

(* str.endswith on chunked names.                                           *)
EndsWith(name, suffix) ==
    /\ Len(name) >= Len(suffix)
    /\ SubSeq(name, Len(name) - Len(suffix) + 1, Len(name)) = suffix

(* Path / name.                                                             *)
Join(path, name) == [root |-> path.root, parts |-> Append(path.parts, name)]

(* A path is the number of a root path and the names below it. NoPath       *)
(* stands in the place of a path where the source has None.                 *)
NoPath == [root |-> 0, parts |-> <<>>]
NoRoot == NoPath.root
NoneResult == [tag |-> "none", path |-> NoPath]
Found(path) == [tag |-> "path", path |-> path]

(* folder_jpg.exists() and folder_jpg.is_file(): a directory named          *)
(* folder.jpg exists but is no file.                                        *)
IsRegularFile(node, name) == \E i \in 1..Len(node.files) : node.files[i].name = name

(* The paths of the files os.walk(path) yields, in the order it yields      *)
(* them: top-down, the files of a directory before its subdirectories.      *)
RECURSIVE WalkFiles(_, _)
RECURSIVE WalkDirs(_, _, _)
WalkFiles(path, node) ==
    [i \in 1..Len(node.files) |-> Join(path, node.files[i].name)]
        \o WalkDirs(path, node.dirs, 1)
WalkDirs(path, dirs, i) ==
    IF i > Len(dirs) THEN <<>>
    ELSE WalkFiles(Join(path, dirs[i].name), dirs[i]) \o WalkDirs(path, dirs, i + 1)

FileName(path) == path.parts[Len(path.parts)]

(* The first element of a sequence of paths whose file name ends with       *)
(* -poster.jpg.                                                             *)
RECURSIVE FirstPoster(_, _)
FirstPoster(paths, i) ==
    IF i > Len(paths) THEN NoneResult
    ELSE IF EndsWith(FileName(paths[i]), PosterSuffix) THEN Found(paths[i])
    ELSE FirstPoster(paths, i + 1)

(* A variant that searches the subtree for a poster before it looks for     *)
(* folder.jpg.                                                              *)
find_actor_image_PosterFirst(actor_path, node) ==
    IF FirstPoster(WalkFiles(actor_path, node), 1).tag = "path"
    THEN FirstPoster(WalkFiles(actor_path, node), 1)
    ELSE IF IsRegularFile(node, FolderJpg)
         THEN Found(Join(actor_path, FolderJpg))
         ELSE NoneResult

(* find_actor_image(actor_path), node being the directory at actor_path.    *)
find_actor_image(actor_path, node) ==
    IF IsRegularFile(node, FolderJpg)
    THEN Found(Join(actor_path, FolderJpg))
    ELSE FirstPoster(WalkFiles(actor_path, node), 1)

(* A directory whose entries cannot be stat'ed: Path.exists() re-raises     *)
(* the PermissionError (pathlib ignores ENOENT, ENOTDIR, EBADF and ELOOP    *)
(* only), so find_actor_image raises.                                       *)
LocatorRaises(node) == node.kind = "denied"

(* The content of the file at the relative path parts below node.           *)
RECURSIVE ContentAt(_, _)
ContentAt(node, parts) ==
    IF Len(parts) = 1
    THEN (CHOOSE f \in Range(node.files) : f.name = parts[1]).content
    ELSE ContentAt(CHOOSE d \in Range(node.dirs) : d.name = parts[1], Tail(parts))

-----------------------------------------------------------------------------
(* The extractor boundary: face_recognition on an image file.               *)

(* The embedding at position t of the line through <<3, 4>>, in hundredths: *)
(* its distance to the embedding at position u is 5 * |t - u| hundredths.   *)
OnLine(t) == <<3 * t, 4 * t>>

(* face_recognition.face_encodings(image): one encoding per detected face.  *)
face_encodings(content) ==
    CASE content = "face1" -> <<OnLine(7)>>
      [] content = "face2" -> <<OnLine(20)>>
      [] content = "face3" -> <<OnLine(24)>>
      [] content = "twofaces" -> <<OnLine(0), OnLine(20)>>
      [] OTHER -> <<>>

(* face_recognition.load_image_file raises on an unreadable image.          *)
LoadRaises(content) == content = "corrupt"

(* None as an embedding.                                                    *)
NoEmbedding == <<>>

(* extract_face_embedding, given what the file at image_path holds.         *)
extract_face_embedding(content) ==
    IF LoadRaises(content) THEN NoEmbedding
    ELSE IF Len(face_encodings(content)) > 0 THEN face_encodings(content)[1]
    ELSE NoEmbedding

-----------------------------------------------------------------------------
(* The static filesystem: the directories a rebuild can be pointed at.      *)

File(name, content) == [name |-> name, content |-> content]
Dir(name, files, dirs) == [name |-> name, kind |-> "dir", files |-> files, dirs |-> dirs]
Denied(name) == [name |-> name, kind |-> "denied", files |-> <<>>, dirs |-> <<>>]
Plain(name) == [name |-> name, kind |-> "file", files |-> <<>>, dirs |-> <<>>]

Poster == <<"x", "-poster", ".jpg">>
Movies(content) == Dir(<<"movies">>, <<File(Poster, content)>>, <<>>)

WithFolderJpg(name, content) == Dir(name, <<File(FolderJpg, content)>>, <<>>)
WithBoth(name) == Dir(name, <<File(FolderJpg, "face2")>>, <<Movies("face1")>>)
WithPosterOnly(name) ==
    Dir(name, <<File(<<"notes", ".txt">>, "noface")>>, <<Movies("face3")>>)
WithNothing(name) == Dir(name, <<>>, <<>>)

ActorNames == {<<"A">>, <<"B">>, <<"C">>}

(* The entries a root directory can hold under a given name; the            *)
(* interleaved specification draws from the narrower catalogue.             *)
EntriesNamed(name, wide) ==
    CASE name = <<"A">> ->
           {WithBoth(name), WithNothing(name)}
             \cup (IF wide THEN {WithFolderJpg(name, "corrupt")} ELSE {})
      [] name = <<"B">> ->
           {WithPosterOnly(name), Denied(name)}
             \cup (IF wide THEN {WithFolderJpg(name, "noface")} ELSE {})
      [] OTHER ->
           {WithFolderJpg(name, "face1")}
             \cup (IF wide THEN {Plain(name)} ELSE {})

RECURSIVE ListingsOf(_, _)
ListingsOf(names, wide) ==
    IF names = <<>> THEN {<<>>}
    ELSE {<<e>> \o rest : e \in EntriesNamed(Head(names), wide),
                          rest \in ListingsOf(Tail(names), wide)}

Directory(listing) == [kind |-> "dir", entries |-> listing]

(* Paths that are no usable root: missing, a regular file, and a directory  *)
(* whose listing cannot be read (iterdir raises PermissionError).           *)
MissingPath == [kind |-> "missing", entries |-> <<>>]
FilePath == [kind |-> "file", entries |-> <<>>]
UnreadablePath == [kind |-> "unreadable", entries |-> <<>>]

RECURSIVE SetToSeq(_)
SetToSeq(S) ==
    IF S = {} THEN <<>>
    ELSE LET x == CHOOSE y \in S : TRUE IN <<x>> \o SetToSeq(S \ {x})

(* The directories with at most MaxEntries entries, one name sequence       *)
(* after the other.                                                         *)
RECURSIVE DirectoriesFrom(_, _)
DirectoriesFrom(nameSeqs, i) ==
    IF i > Len(nameSeqs) THEN <<>>
    ELSE SetToSeq({Directory(l) : l \in ListingsOf(nameSeqs[i], TRUE)})
            \o DirectoriesFrom(nameSeqs, i + 1)

(* What the numbered paths hold.                                            *)
Trees ==
    <<MissingPath, FilePath, UnreadablePath>> \o
    DirectoriesFrom(SetToSeq(InjSeqs(ActorNames, MaxEntries)), 1)
Tree(p) == Trees[p]

Roots == 1..Len(Trees)

(* The paths the interleaved specification rebuilds from.                   *)
ConcActorNames == {<<"A">>, <<"B">>}
ConcRoots ==
    {p \in Roots :
        \/ Tree(p).kind # "dir"
        \/ \A i \in 1..Len(Tree(p).entries) :
              /\ Tree(p).entries[i].name \in ConcActorNames
              /\ Tree(p).entries[i] \in EntriesNamed(Tree(p).entries[i].name, FALSE)}

(* The content of the file at an absolute path of the static filesystem.    *)
ReadFile(path) ==
    ContentAt(CHOOSE e \in Range(Tree(path.root).entries) : e.name = path.parts[1],
              Tail(path.parts))


Images == {"face1", "twofaces", "noface", "corrupt"}
ConcImages == {"face1", "noface"}

-----------------------------------------------------------------------------
(* The database builder, process_celebrity_directory.                       *)

Message(kind, name, processed, skipped) ==
    [kind |-> kind, name |-> name, processed |-> processed, skipped |-> skipped]
Status(busy, message) == [is_processing |-> busy, message |-> message]

(* processing_status as the module creates it.                              *)
InitialStatus == Status(FALSE, Message("", <<>>, 0, 0))

(* What a handler returns, kept with the handler's name and its argument.   *)
Response(op, request, body) == [op |-> op, request |-> request, body |-> body]
NoRequest == [none |-> TRUE]
NoResponse == Response("none", NoRequest, [success |-> FALSE])
Failure(error) == [success |-> FALSE, error |-> error]

(* The first two statements of the try block.                               *)
StatusAtEntry(status) == Status(TRUE, Message("starting", <<>>, 0, 0))

(* The two checks of directory_path; "" when both pass.                     *)
ValidationError(dir) ==
    IF Tree(dir).kind = "missing" THEN "Directory does not exist"
    ELSE IF Tree(dir).kind = "file" THEN "Path is not a directory"
    ELSE ""

(* A variant that leaves the records of the earlier rebuild in place.       *)
ClearDatabase_Keep(db) == db

(* celebrity_database.clear()                                               *)
ClearDatabase(db) == <<>>

(* d[key] = value on the insertion-ordered dict: a present key keeps its    *)
(* place, a new key goes last.                                              *)
SetItem(db, item) ==
    IF \E i \in 1..Len(db) : db[i].name = item.name
    THEN [i \in 1..Len(db) |-> IF db[i].name = item.name THEN item ELSE db[i]]
    ELSE Append(db, item)

(* The statements of the loop body that run before find_actor_image is      *)
(* called: non-directories are passed over, otherwise the message is set.   *)
AnnounceEntry(status, entry) ==
    IF entry.kind = "file" THEN status
    ELSE Status(status.is_processing, Message("processing", entry.name, 0, 0))

(* The loop body raises where find_actor_image does.                        *)
EntryRaises(entry) == entry.kind # "file" /\ LocatorRaises(entry)

(* directory_path.iterdir() raises when the listing cannot be read.         *)
IterdirRaises(dir) == Tree(dir).kind = "unreadable"

(* A variant that does not count an identity whose image has no face.       *)
VisitEntry_NoFaceUncounted(f, dir, entry) ==
    IF entry.kind = "file" THEN f
    ELSE
      LET announced == [f EXCEPT !.status = AnnounceEntry(f.status, entry)]
          image == find_actor_image([root |-> dir, parts |-> <<entry.name>>], entry)
      IN  IF image.tag = "none"
          THEN [announced EXCEPT !.skipped = @ + 1]
          ELSE
            LET embedding == extract_face_embedding(ReadFile(image.path))
            IN  IF embedding # NoEmbedding
                THEN [announced EXCEPT
                        !.db = SetItem(@, [name |-> entry.name,
                                           embedding |-> embedding,
                                           image_path |-> image.path]),
                        !.processed = @ + 1]
                ELSE announced

(* One pass of the loop body over an entry that does not raise, on the      *)
(* frame f = [db, status, processed, skipped, raised].                      *)
VisitEntry(f, dir, entry) ==
    IF entry.kind = "file" THEN f
    ELSE
      LET announced == [f EXCEPT !.status = AnnounceEntry(f.status, entry)]
          image == find_actor_image([root |-> dir, parts |-> <<entry.name>>], entry)
      IN  IF image.tag = "none"
          THEN [announced EXCEPT !.skipped = @ + 1]
          ELSE
            LET embedding == extract_face_embedding(ReadFile(image.path))
            IN  IF embedding # NoEmbedding
                THEN [announced EXCEPT
                        !.db = SetItem(@, [name |-> entry.name,
                                           embedding |-> embedding,
                                           image_path |-> image.path]),
                        !.processed = @ + 1]
                ELSE [announced EXCEPT !.skipped = @ + 1]

(* The for loop from entry i on; it stops where an entry raises.            *)
RECURSIVE Walk(_, _, _)
Walk(f, dir, i) ==
    IF i > Len(Tree(dir).entries) THEN f
    ELSE IF EntryRaises(Tree(dir).entries[i])
         THEN [f EXCEPT !.status = AnnounceEntry(f.status, Tree(dir).entries[i]),
                        !.raised = TRUE]
         ELSE Walk(VisitEntry(f, dir, Tree(dir).entries[i]), dir, i + 1)

(* The statements after the loop.                                           *)
StatusComplete(f) == Status(FALSE, Message("complete", <<>>, f.processed, f.skipped))
SuccessBody(f) ==
    [success |-> TRUE, processed_count |-> f.processed,
     skipped_count |-> f.skipped, total_celebrities |-> Len(f.db)]

(* The except clause.                                                       *)
StatusError(status) == Status(FALSE, Message("error", <<>>, 0, 0))

(* The return of an invalid directory_path: the status stays as the try     *)
(* block's first statements left it.                                        *)
StatusAfterInvalid(status) == StatusAtEntry(status)

(* process_celebrity_directory(dir) run to its return from the given        *)
(* database and status: the database, the status and the returned dict.     *)
process_celebrity_directory(db, status, dir) ==
    IF ValidationError(dir) # ""
    THEN [db |-> db, status |-> StatusAfterInvalid(status),
          body |-> Failure(ValidationError(dir))]
    ELSE
      LET f0 == [db |-> ClearDatabase(db), status |-> StatusAtEntry(status),
                 processed |-> 0, skipped |-> 0, raised |-> IterdirRaises(dir)]
          f == IF f0.raised THEN f0 ELSE Walk(f0, dir, 1)
      IN  IF f.raised
          THEN [db |-> f.db, status |-> StatusError(f.status),
                body |-> Failure("PermissionError")]
          ELSE [db |-> f.db, status |-> StatusComplete(f), body |-> SuccessBody(f)]

-----------------------------------------------------------------------------
(* The similarity ranker, find_celebrity_matches.                           *)

EmptyDatabase == "Celebrity database is empty. Please process a directory first."
NoFaceDetected == "No face found in the uploaded image."

(* The integer square root, exact on the perfect squares the collinear      *)
(* embeddings give.                                                         *)
RECURSIVE ISqrt(_)
ISqrt(n) ==
    IF n < 2 THEN n
    ELSE LET small == 2 * ISqrt(n \div 4)
         IN  IF (small + 1) * (small + 1) > n THEN small ELSE small + 1

RECURSIVE SumSquares(_, _, _)
SumSquares(a, b, i) ==
    IF i > Len(a) THEN 0
    ELSE (a[i] - b[i]) * (a[i] - b[i]) + SumSquares(a, b, i + 1)

(* np.linalg.norm(target_embedding - celebrity_embedding), in hundredths.   *)
Distance(a, b) == ISqrt(SumSquares(a, b, 1))

(* A variant without the clamp at 0.                                        *)
similarity_score_Unclamped(distance) == 100 - distance

(* max(0, 100 - (distance * 100)), the distance given in hundredths.        *)
similarity_score(distance) ==
    IF 100 - distance > 0 THEN 100 - distance ELSE 0

(* The dict appended to similarities for one item of the database.          *)
Similarity(target, item) ==
    [name |-> item.name,
     distance |-> Distance(target, item.embedding),
     similarity_score |-> similarity_score(Distance(target, item.embedding)),
     image_path |-> item.image_path]

(* list.sort(key = distance): stable, ascending.                            *)
RECURSIVE InsertByDistance(_, _)
InsertByDistance(sorted, x) ==
    IF sorted = <<>> THEN <<x>>
    ELSE IF sorted[Len(sorted)].distance <= x.distance THEN Append(sorted, x)
    ELSE Append(InsertByDistance(SubSeq(sorted, 1, Len(sorted) - 1), x),
                sorted[Len(sorted)])

(* A variant that leaves the list in the order of the database.             *)
SortByDistance_Unsorted(s) == s

RECURSIVE SortByDistance(_)
SortByDistance(s) ==
    IF s = <<>> THEN <<>>
    ELSE InsertByDistance(SortByDistance(SubSeq(s, 1, Len(s) - 1)), s[Len(s)])

(* similarities[:top_k] for top_k >= 1.                                     *)
TopK(similarities, top_k) == Take(similarities, top_k)

(* The sort and the slice that end find_celebrity_matches.                  *)
RankSimilarities(similarities, top_k) == TopK(SortByDistance(similarities), top_k)

(* The first check of find_celebrity_matches: "not celebrity_database".     *)
DatabaseIsEmpty(db) == Len(db) = 0

(* A variant that consults the extractor before it looks at the database.   *)
find_celebrity_matches_ExtractFirst(db, image, top_k) ==
    IF extract_face_embedding(image) = NoEmbedding THEN Failure(NoFaceDetected)
    ELSE IF DatabaseIsEmpty(db) THEN Failure(EmptyDatabase)
    ELSE [success |-> TRUE,
          matches |-> RankSimilarities(
                         [i \in 1..Len(db) |->
                             Similarity(extract_face_embedding(image), db[i])],
                         top_k)]

(* find_celebrity_matches(image, top_k) run to its end on the database db:  *)
(* the list returned, or the ValueError raised.                             *)
find_celebrity_matches(db, image, top_k) ==
    IF DatabaseIsEmpty(db) THEN Failure(EmptyDatabase)
    ELSE LET target == extract_face_embedding(image)
         IN  IF target = NoEmbedding THEN Failure(NoFaceDetected)
             ELSE [success |-> TRUE,
                   matches |-> RankSimilarities(
                                  [i \in 1..Len(db) |-> Similarity(target, db[i])],
                                  top_k)]

(* The answer of api_database_status read from db in one piece.             *)
DatabaseStatusBody(db) ==
    [is_loaded |-> Len(db) > 0,
     celebrity_count |-> Len(db),
     celebrities |-> [i \in 1..Len(db) |-> db[i].name]]

-----------------------------------------------------------------------------
(* The sequential specification: one handler at a time, each run from call  *)
(* to return in one step.                                                   *)

IdleRebuild ==
    /\ r_pc = "idle" /\ r_dir = NoRoot /\ r_idx = 0
    /\ r_counts = [processed |-> 0, skipped |-> 0] /\ r_was_full = FALSE
NoIter == [di_used |-> 0, di_pos |-> 0]
IdleQuery ==
    /\ q_pc = "idle" /\ q_img = "" /\ q_topk = 0 /\ q_target = NoEmbedding
    /\ q_iter = NoIter /\ q_sims = <<>>
IdleStatus == s_pc = "idle" /\ s_part = <<>>
NotCalled == [tag |-> "pending", path |-> NoPath]
NoLocator == loc_actor = WithNothing(<<>>) /\ loc_result = NotCalled

Init ==
    /\ celebrity_database = <<>>
    /\ processing_status = InitialStatus
    /\ response = NoResponse
    /\ IdleRebuild /\ IdleQuery /\ IdleStatus /\ NoLocator

(* POST /api/process_directory                                              *)
ProcessDirectory(dir) ==
    LET run == process_celebrity_directory(celebrity_database, processing_status, dir)
    IN  /\ celebrity_database' = run.db
        /\ processing_status' = run.status
        /\ response' = Response("process_directory", [directory_path |-> dir], run.body)
        /\ UNCHANGED <<rvars, qvars, svars, lvars>>

(* find_celebrity_matches(image, top_k); POST /api/recognize_face is the    *)
(* call with top_k = 10.                                                    *)
FindMatches(image, top_k) ==
    /\ response' = Response("find_celebrity_matches",
                            [image |-> image, top_k |-> top_k],
                            find_celebrity_matches(celebrity_database, image, top_k))
    /\ UNCHANGED <<celebrity_database, processing_status, rvars, qvars, svars, lvars>>

RecognizeFace(image) == FindMatches(image, RecognizeTopK)

(* GET /api/database_status                                                 *)
DatabaseStatus ==
    /\ response' = Response("database_status", NoRequest,
                            DatabaseStatusBody(celebrity_database))
    /\ UNCHANGED <<celebrity_database, processing_status, rvars, qvars, svars, lvars>>

(* GET /api/processing_status                                               *)
ProcessingStatus ==
    /\ response' = Response("processing_status", NoRequest, processing_status)
    /\ UNCHANGED <<celebrity_database, processing_status, rvars, qvars, svars, lvars>>

Next ==
    \/ \E dir \in Roots : ProcessDirectory(dir)
    \/ \E image \in Images : RecognizeFace(image)
    \/ \E image \in Images, top_k \in 1..MaxTopK : FindMatches(image, top_k)
    \/ DatabaseStatus
    \/ ProcessingStatus

Spec == Init /\ [][Next]_vars

-----------------------------------------------------------------------------
(* The locator on its own: find_actor_image called on one directory of a    *)
(* bounded family of directory trees.                                       *)

LocatorFileNames ==
    {FolderJpg, Poster, PosterSuffix, <<"x", "-poster", ".jpg", ".bak">>,
     <<"photo", ".jpg">>}

AsFiles(names) == [i \in 1..Len(names) |-> File(names[i], "noface")]

(* The listings of the top directory and of a first-level subdirectory.     *)
LocatorFileLists == {AsFiles(ns) : ns \in InjSeqs(LocatorFileNames, MaxFiles)}

(* The listings of the directories below.                                   *)
DeepFileLists == {AsFiles(ns) : ns \in {<<>>, <<Poster>>, <<FolderJpg>>}}

SubdirNames == {<<"movies">>, FolderJpg}

LocatorDirs ==
    {Dir(<<"A">>, top, <<>>) : top \in LocatorFileLists}
    \cup {Dir(<<"A">>, top, <<Dir(n, sub, <<>>)>>) :
            top \in LocatorFileLists, n \in SubdirNames, sub \in LocatorFileLists}
    \cup {Dir(<<"A">>, top, <<Dir(n, sub, <<Dir(<<"extras">>, deep, <<>>)>>)>>) :
            top \in LocatorFileLists, n \in SubdirNames,
            sub \in DeepFileLists, deep \in DeepFileLists}
    \cup {Dir(<<"A">>, top, <<Dir(<<"movies">>, sub, <<>>), Dir(<<"tv">>, deep, <<>>)>>) :
            top \in LocatorFileLists, sub \in DeepFileLists, deep \in DeepFileLists}

(* The path the directory given to the locator is at.                       *)
LocatorBase == [root |-> NoRoot, parts |-> <<loc_actor.name>>]

InitLocator ==
    /\ celebrity_database = <<>>
    /\ processing_status = InitialStatus
    /\ response = NoResponse
    /\ IdleRebuild /\ IdleQuery /\ IdleStatus
    /\ loc_actor \in LocatorDirs
    /\ loc_result = NotCalled

Locate ==
    /\ loc_result = NotCalled
    /\ loc_result' = find_actor_image(LocatorBase, loc_actor)
    /\ UNCHANGED <<celebrity_database, processing_status, response,
                   rvars, qvars, svars, loc_actor>>

NextLocator == Locate

SpecLocator == InitLocator /\ [][NextLocator]_vars

-----------------------------------------------------------------------------
(* The interleaved specification: the handlers run in threads of the        *)
(* development server, and a step is what a handler does between two        *)
(* accesses to celebrity_database. One thread rebuilds, one recognizes,     *)
(* one answers database_status.                                             *)

InitConc == Init

(* The database a rebuild of dir leaves when nothing interferes.            *)
FinalDatabase(dir) == process_celebrity_directory(<<>>, InitialStatus, dir).db

(* The frame of a call is gone when the call has returned.                  *)
RebuildReturned ==
    /\ r_pc' = "idle" /\ r_dir' = NoRoot /\ r_idx' = 0
    /\ r_counts' = [processed |-> 0, skipped |-> 0] /\ r_was_full' = FALSE
QueryReturned ==
    /\ q_pc' = "idle" /\ q_img' = "" /\ q_topk' = 0 /\ q_target' = NoEmbedding
    /\ q_iter' = NoIter /\ q_sims' = <<>>

(* process_celebrity_directory up to the return of an invalid path or to    *)
(* the clear.                                                               *)
RebuildBegin(dir) ==
    /\ r_pc = "idle"
    /\ processing_status' = StatusAtEntry(processing_status)
    /\ IF ValidationError(dir) # ""
       THEN /\ response' = Response("process_directory", [directory_path |-> dir],
                                    Failure(ValidationError(dir)))
            /\ RebuildReturned
       ELSE /\ response' = NoResponse
            /\ r_pc' = "clear"
            /\ r_dir' = dir
            /\ r_idx' = 0
            /\ r_counts' = [processed |-> 0, skipped |-> 0]
            /\ r_was_full' = /\ celebrity_database # <<>>
                             /\ celebrity_database = FinalDatabase(dir)
    /\ UNCHANGED <<celebrity_database, qvars, svars, lvars>>

(* celebrity_database.clear() and the two counters.                         *)
RebuildClear ==
    /\ r_pc = "clear"
    /\ celebrity_database' = ClearDatabase(celebrity_database)
    /\ r_pc' = "walk"
    /\ response' = NoResponse
    /\ UNCHANGED <<processing_status, r_dir, r_idx, r_counts, r_was_full,
                   qvars, svars, lvars>>

(* One pass of the loop body.                                               *)
RebuildVisit ==
    /\ r_pc = "walk"
    /\ ~IterdirRaises(r_dir)
    /\ r_idx < Len(Tree(r_dir).entries)
    /\ ~EntryRaises(Tree(r_dir).entries[r_idx + 1])
    /\ LET f == VisitEntry([db |-> celebrity_database, status |-> processing_status,
                            processed |-> r_counts.processed,
                            skipped |-> r_counts.skipped, raised |-> FALSE],
                           r_dir, Tree(r_dir).entries[r_idx + 1])
       IN  /\ celebrity_database' = f.db
           /\ processing_status' = f.status
           /\ r_counts' = [processed |-> f.processed, skipped |-> f.skipped]
    /\ r_idx' = r_idx + 1
    /\ response' = NoResponse
    /\ UNCHANGED <<r_pc, r_dir, r_was_full, qvars, svars, lvars>>

(* The listing or an entry raises: the except clause.                       *)
RebuildRaise ==
    /\ r_pc = "walk"
    /\ \/ IterdirRaises(r_dir)
       \/ /\ r_idx < Len(Tree(r_dir).entries)
          /\ EntryRaises(Tree(r_dir).entries[r_idx + 1])
    /\ processing_status' = StatusError(processing_status)
    /\ response' = Response("process_directory", [directory_path |-> r_dir],
                            Failure("PermissionError"))
    /\ RebuildReturned
    /\ UNCHANGED <<celebrity_database, qvars, svars, lvars>>

(* The statements after the loop.                                           *)
RebuildFinish ==
    /\ r_pc = "walk"
    /\ ~IterdirRaises(r_dir)
    /\ r_idx = Len(Tree(r_dir).entries)
    /\ LET f == [db |-> celebrity_database, processed |-> r_counts.processed,
                 skipped |-> r_counts.skipped]
       IN  /\ processing_status' = StatusComplete(f)
           /\ response' = Response("process_directory", [directory_path |-> r_dir],
                                   SuccessBody(f))
    /\ RebuildReturned
    /\ UNCHANGED <<celebrity_database, qvars, svars, lvars>>

(* api_recognize_face calls find_celebrity_matches: the emptiness check,    *)
(* then the extraction.                                                     *)
QueryBegin(image) ==
    /\ q_pc = "idle"
    /\ IF DatabaseIsEmpty(celebrity_database)
       THEN /\ response' = Response("find_celebrity_matches",
                                    [image |-> image, top_k |-> RecognizeTopK],
                                    Failure(EmptyDatabase))
            /\ QueryReturned
       ELSE IF extract_face_embedding(image) = NoEmbedding
       THEN /\ response' = Response("find_celebrity_matches",
                                    [image |-> image, top_k |-> RecognizeTopK],
                                    Failure(NoFaceDetected))
            /\ QueryReturned
       ELSE /\ response' = NoResponse
            /\ q_pc' = "loop"
            /\ q_img' = image
            /\ q_topk' = RecognizeTopK
            /\ q_target' = extract_face_embedding(image)
            /\ q_iter' = NoIter
            /\ q_sims' = <<>>
    /\ UNCHANGED <<celebrity_database, processing_status, rvars, svars, lvars>>

(* iter(celebrity_database.items()): the iterator notes the dict's size.    *)
QueryIter ==
    /\ q_pc = "loop"
    /\ q_iter' = [di_used |-> Len(celebrity_database), di_pos |-> 0]
    /\ q_pc' = "next"
    /\ response' = NoResponse
    /\ UNCHANGED <<celebrity_database, processing_status, rvars,
                   q_img, q_topk, q_target, q_sims, svars, lvars>>

(* next() of the item iterator: RuntimeError when the dict's size is not    *)
(* the one noted, else the item at the iterator's position.                 *)
QueryNext ==
    /\ q_pc = "next"
    /\ q_iter.di_used = Len(celebrity_database)
    /\ q_iter.di_pos < Len(celebrity_database)
    /\ q_sims' = Append(q_sims,
                        Similarity(q_target, celebrity_database[q_iter.di_pos + 1]))
    /\ q_iter' = [q_iter EXCEPT !.di_pos = @ + 1]
    /\ response' = NoResponse
    /\ UNCHANGED <<celebrity_database, processing_status, rvars,
                   q_pc, q_img, q_topk, q_target, svars, lvars>>

(* "dictionary changed size during iteration": api_recognize_face answers   *)
(* with the error.                                                          *)
QueryRaise ==
    /\ q_pc = "next"
    /\ q_iter.di_used # Len(celebrity_database)
    /\ response' = Response("find_celebrity_matches",
                            [image |-> q_img, top_k |-> q_topk],
                            Failure("RuntimeError"))
    /\ QueryReturned
    /\ UNCHANGED <<celebrity_database, processing_status, rvars, svars, lvars>>

(* The iterator is exhausted: the sort, the slice and the return.           *)
QueryReturn ==
    /\ q_pc = "next"
    /\ q_iter.di_used = Len(celebrity_database)
    /\ q_iter.di_pos >= Len(celebrity_database)
    /\ response' = Response("find_celebrity_matches",
                            [image |-> q_img, top_k |-> q_topk],
                            [success |-> TRUE,
                             matches |-> RankSimilarities(q_sims, q_topk)])
    /\ QueryReturned
    /\ UNCHANGED <<celebrity_database, processing_status, rvars, svars, lvars>>

(* api_database_status evaluates its three fields one after the other.      *)
StatusLoaded ==
    /\ s_pc = "idle"
    /\ s_part' = <<Len(celebrity_database) > 0>>
    /\ s_pc' = "count"
    /\ response' = NoResponse
    /\ UNCHANGED <<celebrity_database, processing_status, rvars, qvars, lvars>>

StatusCount ==
    /\ s_pc = "count"
    /\ s_part' = <<s_part[1], Len(celebrity_database)>>
    /\ s_pc' = "names"
    /\ response' = NoResponse
    /\ UNCHANGED <<celebrity_database, processing_status, rvars, qvars, lvars>>

(* The request field notes what the thread rebuilding was at when the       *)
(* names were read.                                                         *)
StatusNames ==
    /\ s_pc = "names"
    /\ response' = Response("database_status",
                            [during |-> r_pc, directory_path |-> r_dir,
                             was_full |-> r_was_full],
                            [is_loaded |-> s_part[1],
                             celebrity_count |-> s_part[2],
                             celebrities |-> DatabaseStatusBody(celebrity_database).celebrities])
    /\ s_part' = <<>>
    /\ s_pc' = "idle"
    /\ UNCHANGED <<celebrity_database, processing_status, rvars, qvars, lvars>>

NextConc ==
    \/ \E dir \in ConcRoots : RebuildBegin(dir)
    \/ RebuildClear
    \/ RebuildVisit
    \/ RebuildRaise
    \/ RebuildFinish
    \/ \E image \in ConcImages : QueryBegin(image)
    \/ QueryIter
    \/ QueryNext
    \/ QueryRaise
    \/ QueryReturn
    \/ StatusLoaded
    \/ StatusCount
    \/ StatusNames

SpecConc == InitConc /\ [][NextConc]_vars

-----------------------------------------------------------------------------
(* What the claims speak of, stated on a root's listing and not through     *)
(* the builder's loop.                                                      *)

Min(a, b) == IF a < b THEN a ELSE b

(* The immediate subdirectories of a root, by position in its listing.      *)
Subdirectories(dir) ==
    {i \in 1..Len(Tree(dir).entries) : Tree(dir).entries[i].kind # "file"}

LocatedImage(dir, i) ==
    find_actor_image([root |-> dir, parts |-> <<Tree(dir).entries[i].name>>],
                     Tree(dir).entries[i])

(* The subdirectories with a located image the extractor finds a face in.   *)
WithEmbedding(dir) ==
    {i \in Subdirectories(dir) :
        /\ LocatedImage(dir, i).tag = "path"
        /\ extract_face_embedding(ReadFile(LocatedImage(dir, i).path)) # NoEmbedding}

RecordOf(dir, i) ==
    [name |-> Tree(dir).entries[i].name,
     embedding |-> extract_face_embedding(ReadFile(LocatedImage(dir, i).path)),
     image_path |-> LocatedImage(dir, i).path]

Rebuilt == response.op = "process_directory"
RebuiltOk == Rebuilt /\ response.body.success
Ranked == response.op = "find_celebrity_matches"
RankedOk == Ranked /\ response.body.success

-----------------------------------------------------------------------------
(* C1: a ranking of a non-empty database with an embedding and top_k >= 1   *)
(* returns a list in non-decreasing order of distance, of length exactly    *)
(* min(top_k, |database|), whose names are distinct keys of the database,   *)
(* each with that record's image path.                                      *)
C1_RankContract ==
    Ranked =>
      /\ ( /\ celebrity_database # <<>>
           /\ extract_face_embedding(response.request.image) # NoEmbedding )
         => response.body.success
      /\ response.body.success =>
           LET m == response.body.matches
           IN  /\ \A i \in 1..(Len(m) - 1) : m[i].distance <= m[i + 1].distance
               /\ Len(m) = Min(response.request.top_k, Len(celebrity_database))
               /\ \A i, j \in 1..Len(m) : i # j => m[i].name # m[j].name
               /\ \A i \in 1..Len(m) :
                     \E j \in 1..Len(celebrity_database) :
                        /\ celebrity_database[j].name = m[i].name
                        /\ celebrity_database[j].image_path = m[i].image_path

(* A ranking of three records cut to two, the nearest not the first         *)
(* inserted.                                                                *)
C1_Witness ==
    /\ RankedOk
    /\ Len(celebrity_database) = 3
    /\ response.request.top_k = 2
    /\ Len(response.body.matches) = 2
    /\ response.body.matches[1].name # celebrity_database[1].name
    /\ response.body.matches[1].distance < response.body.matches[2].distance

(* C2: no ranking call returns a success with an empty match list; on an    *)
(* empty database the call fails with EmptyDatabase, also while a rebuild   *)
(* is in flight.                                                            *)
C2_NeverEmptySuccess ==
    RankedOk => Len(response.body.matches) >= 1

(* C3: a successful rebuild reports processed_count = the subdirectories    *)
(* with an image and an embedding, skipped_count = the other                *)
(* subdirectories, total_celebrities = |database| = processed_count; and    *)
(* the rebuild of a readable directory succeeds whatever the extractor      *)
(* does on its images.                                                      *)
C3_RebuildCounts ==
    Rebuilt =>
      LET dir == response.request.directory_path
      IN  /\ ( /\ Tree(dir).kind = "dir"
               /\ \A i \in Subdirectories(dir) : Tree(dir).entries[i].kind # "denied" )
             => response.body.success
          /\ response.body.success =>
               /\ response.body.processed_count = Cardinality(WithEmbedding(dir))
               /\ response.body.skipped_count =
                     Cardinality(Subdirectories(dir) \ WithEmbedding(dir))
               /\ response.body.processed_count + response.body.skipped_count =
                     Cardinality(Subdirectories(dir))
               /\ response.body.total_celebrities = Len(celebrity_database)
               /\ response.body.total_celebrities = response.body.processed_count

(* One identity processed, one with a photo without a face, one without an  *)
(* image.                                                                   *)
C3_Witness ==
    /\ RebuiltOk
    /\ response.body.processed_count = 1
    /\ response.body.skipped_count = 2
    /\ response.body.total_celebrities = 1
    /\ LET dir == response.request.directory_path
       IN  /\ \E i \in Subdirectories(dir) : LocatedImage(dir, i).tag = "none"
           /\ \E i \in Subdirectories(dir) :
                 /\ LocatedImage(dir, i).tag = "path"
                 /\ ReadFile(LocatedImage(dir, i).path) = "noface"

(* C4: a rebuild of a path that is missing or no directory changes neither  *)
(* the database nor the processing status.                                  *)
C4_InvalidRootNoMutation ==
    [][(response'.op = "process_directory"
          /\ ValidationError(response'.request.directory_path) # "")
        => UNCHANGED <<celebrity_database, processing_status>>]_vars

(* C5: the database a successful rebuild leaves holds exactly one record    *)
(* per identity with a located image and a face, whatever it held before,   *)
(* and a second rebuild of the same root right after leaves it as it is.    *)
C5_RebuildReplaces ==
    [][(response'.op = "process_directory" /\ response'.body.success) =>
          LET dir == response'.request.directory_path
          IN  /\ Range(celebrity_database') =
                    {RecordOf(dir, i) : i \in WithEmbedding(dir)}
              /\ Len(celebrity_database') = Cardinality(WithEmbedding(dir))
              /\ (RebuiltOk /\ response.request.directory_path = dir)
                    => celebrity_database' = celebrity_database]_vars

(* A successful rebuild that leaves two records.                            *)
C5_Witness ==
    /\ RebuiltOk
    /\ Len(celebrity_database) = 2
    /\ Cardinality(Subdirectories(response.request.directory_path)) = 3

(* The paths of the files below a directory, as a set.                      *)
RECURSIVE SubtreeFiles(_, _)
SubtreeFiles(path, node) ==
    {Join(path, f.name) : f \in Range(node.files)}
    \cup UNION {SubtreeFiles(Join(path, d.name), d) : d \in Range(node.dirs)}

HasFolderJpg == \E f \in Range(loc_actor.files) : f.name = FolderJpg
Posters ==
    {p \in SubtreeFiles(LocatorBase, loc_actor) : EndsWith(FileName(p), PosterSuffix)}

(* C6: the locator returns folder.jpg of the directory itself when it is a  *)
(* regular file there, also when the subtree holds a *-poster.jpg; without  *)
(* it, a file of the subtree whose name ends with -poster.jpg when there    *)
(* is one; and none exactly when there is neither.                          *)
C6_LocatorStages ==
    loc_result # NotCalled =>
      /\ HasFolderJpg => loc_result = Found(Join(LocatorBase, FolderJpg))
      /\ (~HasFolderJpg /\ Posters # {}) =>
            loc_result.tag = "path" /\ loc_result.path \in Posters
      /\ loc_result.tag = "none" <=> (~HasFolderJpg /\ Posters = {})

(* folder.jpg returned from a directory whose subtree holds a poster.       *)
C6_Witness ==
    /\ loc_result = Found(Join(LocatorBase, FolderJpg))
    /\ \E p \in Posters : Len(p.parts) > 2

(* C7 as claimed: a query whose image yields no face fails with             *)
(* NoFaceDetected whatever the database holds.                              *)
C7_NoFaceWhateverDatabase ==
    (Ranked /\ extract_face_embedding(response.request.image) = NoEmbedding)
       => response.body = Failure(NoFaceDetected)

(* C7 as amended: find_celebrity_matches checks the database first. On an   *)
(* empty database the call fails with EmptyDatabase whatever the image; on  *)
(* a non-empty one an image without a face fails with NoFaceDetected, and   *)
(* the ranking runs only with an embedding.                                 *)
C7_EmptyCheckFirst ==
    Ranked =>
      /\ celebrity_database = <<>> => response.body = Failure(EmptyDatabase)
      /\ ( /\ celebrity_database # <<>>
           /\ extract_face_embedding(response.request.image) = NoEmbedding )
         => response.body = Failure(NoFaceDetected)
      /\ response.body.success =>
           extract_face_embedding(response.request.image) # NoEmbedding

(* A corrupt image queried against a database with records.                 *)
C7_Witness ==
    /\ Ranked
    /\ response.request.top_k = RecognizeTopK
    /\ response.request.image = "corrupt"
    /\ celebrity_database # <<>>
    /\ response.body = Failure(NoFaceDetected)

(* C8: the score of a match lies in 0..100, is 100 at distance 0, 0 from    *)
(* distance 1 on, 65 at distance 0.35, and does not grow with the           *)
(* distance, so the list is in non-increasing order of score.               *)
C8_ScoreBounds ==
    RankedOk =>
      LET m == response.body.matches
      IN  /\ \A i \in 1..Len(m) :
                /\ m[i].similarity_score \in 0..100
                /\ m[i].distance = 0 => m[i].similarity_score = 100
                /\ m[i].distance >= 100 => m[i].similarity_score = 0
                /\ m[i].distance = 35 => m[i].similarity_score = 65
                /\ m[i].distance < 100 => m[i].similarity_score = 100 - m[i].distance
          /\ \A i, j \in 1..Len(m) :
                m[i].distance <= m[j].distance
                   => m[i].similarity_score >= m[j].similarity_score
          /\ \A i \in 1..(Len(m) - 1) :
                m[i].similarity_score >= m[i + 1].similarity_score

(* Matches at distance 0.35 and 1.2 in one answer.                          *)
C8_Witness ==
    /\ RankedOk
    /\ \E i \in 1..Len(response.body.matches) :
          /\ response.body.matches[i].distance = 35
          /\ response.body.matches[i].similarity_score = 65
    /\ \E i \in 1..Len(response.body.matches) :
          /\ response.body.matches[i].distance = 120
          /\ response.body.matches[i].similarity_score = 0

(* The names a rebuild of dir installs.                                     *)
FinalNames(dir) == {Tree(dir).entries[i].name : i \in WithEmbedding(dir)}
Names(db) == {db[i].name : i \in 1..Len(db)}

(* C9: from its clear on, a rebuild in flight has the database hold the     *)
(* identities it has inserted so far and no other, so what                  *)
(* database_status reads then is empty or a subset of what the rebuild      *)
(* installs.                                                                *)
C9_ClearThenRepopulate ==
    /\ r_pc = "walk" =>
          /\ Names(celebrity_database) =
                {Tree(r_dir).entries[i].name :
                    i \in {j \in WithEmbedding(r_dir) : j <= r_idx}}
          /\ Names(celebrity_database) \subseteq FinalNames(r_dir)
    /\ (response.op = "database_status" /\ response.request.during = "walk") =>
          Range(response.body.celebrities)
             \subseteq FinalNames(response.request.directory_path)

(* database_status answers with one of the two identities of a root being   *)
(* rebuilt, the database having held both when the rebuild began.           *)
C9_Witness ==
    /\ response.op = "database_status"
    /\ response.request.during = "walk"
    /\ response.request.was_full
    /\ Cardinality(FinalNames(response.request.directory_path)) = 2
    /\ Len(response.body.celebrities) = 1

(* C10: a rebuild call that has returned, on any path, has left             *)
(* is_processing false.                                                     *)
C10_ReturnedNotBusy ==
    Rebuilt => ~processing_status.is_processing

=============================================================================
